---- MODULE Spec2Model ----
(***************************************************************************)
(* Hybrid SARIMA + XGBoost temperature forecaster (openmeteo_sqlite).      *)
(*                                                                         *)
(* Tables (pandas DataFrames) are records [cols, rows]: the set of column  *)
(* names and the sequence of rows.  A row carries every field the model    *)
(* reads; a field of a column the table lacks holds NaN.                   *)
(* Dates are day numbers.  Temperatures and residuals are integers in      *)
(* thousandths of a degree, so that the 1.6 / 1.4 factors and the          *)
(* two-decimal rounding of the forecast rows are exact.                    *)
(***************************************************************************)
EXTENDS Integers, Sequences, FiniteSets

VARIABLES
    pc,                 \* position of the running operation
    df,                 \* input table handed to preparar_features_xgb
    modo_entrenamiento, \* mode flag of the last preparar_features_xgb call
    df_feat,            \* what that call returned
    db,                 \* the observation store (table 'mediciones')
    sarima,             \* the persisted seasonal model the forecaster loads
    xgb_model,          \* the persisted corrector the forecaster loads
    features_names,     \* the feature names persisted with the corrector
    ciudad,             \* predecir_hibrido: argument
    dias_forecast,      \* predecir_hibrido: argument
    df_futuro_meteo,    \* predecir_hibrido: stored rows dated today or later
    sarima_forecast,    \* predecir_hibrido: the seasonal forecast, by position
    df_dinamico,        \* predecir_hibrido: the running history
    i,                  \* predecir_hibrido: loop index (steps completed)
    resultados,         \* predecir_hibrido: the Forecast Rows so far
    pasos,              \* the locals of every completed loop step, in order
    anterior,           \* arguments and outcome of the call before this one
    dias_por_mes,       \* muestreo_mensual: argument
    df_bal,             \* what the last muestreo_mensual call returned
    sarima_models,      \* model store: the persisted seasonal models
    xgb_guardados,      \* model store: the persisted correctors
    corrida,            \* outcome of the last training run
    today,              \* date.today() of the ingestion runs
    llamada,            \* get_data: arguments and outcome of the last call
    descarga,           \* descargar_datos_openmeteo: the running call
    alerta,             \* the alert pipeline: table, alerts, messages sent
    carga               \* predecir_hibrido: the artifact names it last loaded

varsFeat == <<df, modo_entrenamiento, df_feat>>

varsForecast ==
    <<db, sarima, xgb_model, features_names, ciudad, dias_forecast, df_futuro_meteo,
      sarima_forecast, df_dinamico, i, resultados, pasos, anterior>>

varsTrain == <<dias_por_mes, df_bal, sarima_models, xgb_guardados, corrida>>

varsAux == <<llamada, descarga, alerta, carga>>

vars == <<pc, varsFeat, varsForecast, varsTrain, today, varsAux>>

----------------------------------------------------------------------------
(* Bounds of the model *)

\* most days a feature-builder input table spans
MaxFilas == 16
\* most rows of the input whose residual is missing
MaxNaN == 1
\* most days the second location's series starts after the first one's
MaxDesfase == 1
\* most stored rows dated before today
MaxHist == 15
\* largest forecast horizon, and most days after today with a stored row
MaxDias == 2

----------------------------------------------------------------------------
(* Values *)

\* pandas' missing value (NaN / NA); never a legal temperature or residual
NaN == -1000000

IsNaN(x) == x = NaN

\* hoy = pd.Timestamp.now().normalize(), as a day number: the day the
\* forecaster is called on, and the first day of the ingestion runs
Hoy == 20

\* Location labels, numbered in the order Python sorts the strings:
\* "Santander" < "santander" < "sevilla"
Santander == 1
santander == 2
sevilla == 3

\* str.lower() on a location label
Lower(e) == IF e = Santander THEN santander ELSE e

\* columns of the table 'mediciones' that the model reads
ColumnasDB ==
    {"time", "temperature_2m_mean", "wind_direction_10m_dominant", "estacion"}

\* one row of a table
Fila(e, t, temp, vdir, res, sar) ==
    [estacion |-> e, time |-> t, temperature_2m_mean |-> temp,
     wind_direction_10m_dominant |-> vdir, residuo |-> res, sarima_pred |-> sar]

----------------------------------------------------------------------------
(* features/xgb_features.py : preparar_features_xgb *)

lags == {1, 3, 7, 14}
rollings == {3, 7, 14}

\* sort key of df.sort_values(["estacion", "time"])
ClaveLeq(a, b) ==
    \/ a.estacion < b.estacion
    \/ a.estacion = b.estacion /\ a.time <= b.time

\* r placed behind every row whose key is <= its own (the sort is stable)
InsertarOrdenado(s, r) ==
    LET k == Cardinality({j \in 1..Len(s) : ClaveLeq(s[j], r)})
    IN  SubSeq(s, 1, k) \o <<r>> \o SubSeq(s, k + 1, Len(s))

RECURSIVE SortValues(_)
SortValues(rows) ==
    IF rows = <<>> THEN <<>>
    ELSE InsertarOrdenado(SortValues(SubSeq(rows, 1, Len(rows) - 1)),
                          rows[Len(rows)])

\* df.groupby("estacion")["residuo"].shift(k) at position p of the sorted
\* table: the residual k rows earlier in the same location.  The table is
\* sorted by location first, so a location's rows are contiguous.
GroupShiftSinGrupo(rows, p, k) ==
    IF p - k >= 1 THEN rows[p - k].residuo ELSE NaN

GroupShift(rows, p, k) ==
    IF p - k >= 1 /\ rows[p - k].estacion = rows[p].estacion
    THEN rows[p - k].residuo
    ELSE NaN

\* serie = df.groupby("estacion")["residuo"].shift(1)
SerieSinShift(rows) == [p \in 1..Len(rows) |-> rows[p].residuo]

Serie(rows) == [p \in 1..Len(rows) |-> GroupShift(rows, p, 1)]

RECURSIVE SumaRango(_, _, _)
SumaRango(s, a, b) == IF a > b THEN 0 ELSE s[a] + SumaRango(s, a + 1, b)

RECURSIVE SumaCuadrados(_, _, _)
SumaCuadrados(s, a, b) ==
    IF a > b THEN 0 ELSE s[a] * s[a] + SumaCuadrados(s, a + 1, b)

\* serie.rolling(r): the window of the r positions ending at p, over the
\* whole table (not per location); undefined until r values are present
VentanaCompleta(s, p, r) ==
    p >= r /\ \A q \in (p - r + 1)..p : ~IsNaN(s[q])

\* serie.rolling(r).mean() at p, times r (kept an integer)
RollMean(s, p, r) ==
    IF VentanaCompleta(s, p, r) THEN SumaRango(s, p - r + 1, p) ELSE NaN

\* serie.rolling(r).std() at p, as r*(r-1) times its square (kept an integer)
RollStd(s, p, r) ==
    IF VentanaCompleta(s, p, r)
    THEN r * SumaCuadrados(s, p - r + 1, p)
         - SumaRango(s, p - r + 1, p) * SumaRango(s, p - r + 1, p)
    ELSE NaN

\* the lag and rolling columns of row p of the sorted table
FeaturesDeFila(rows, p) ==
    [fila |-> rows[p],
     residuo_lag |-> [k \in lags |-> GroupShift(rows, p, k)],
     residuo_roll_mean |-> [r \in rollings |-> RollMean(Serie(rows), p, r)],
     residuo_roll_std |-> [r \in rollings |-> RollStd(Serie(rows), p, r)]]

\* the table with its lag and rolling columns
FeatureColumns(rows) == [p \in 1..Len(rows) |-> FeaturesDeFila(rows, p)]

\* a row with no NaN in any column whose name holds "lag_" or "roll_"
LagsCompletos(f) ==
    /\ \A k \in lags : ~IsNaN(f.residuo_lag[k])
    /\ \A r \in rollings :
          ~IsNaN(f.residuo_roll_mean[r]) /\ ~IsNaN(f.residuo_roll_std[r])

\* df.dropna(subset = columnas_requeridas + lag/roll columns)
DropnaSoloResiduo(f, modo) == modo => ~IsNaN(f.fila.residuo)

DropnaTolerante(f, modo) ==
    modo => (~IsNaN(f.fila.residuo) /\ LagsCompletos(f))

Dropna(f, modo) ==
    /\ modo => ~IsNaN(f.fila.residuo)
    /\ LagsCompletos(f)

\* the feature rows of the first n rows of the sorted table that dropna keeps
RECURSIVE Filtrar(_, _, _)
Filtrar(rows, n, modo) ==
    IF n = 0 THEN <<>>
    ELSE LET f == FeaturesDeFila(rows, n)
         IN  IF Dropna(f, modo)
             THEN Append(Filtrar(rows, n - 1, modo), f)
             ELSE Filtrar(rows, n - 1, modo)

\* preparar_features_xgb(df, modo_entrenamiento): the feature table, or the
\* KeyError that df.groupby("estacion")["residuo"] raises without the column
PrepararFeaturesXgb(d, modo) ==
    IF "residuo" \notin d.cols
    THEN [error |-> "KeyError", rows |-> <<>>]
    ELSE LET ordenado == SortValues(d.rows)
         IN  [error |-> "", rows |-> Filtrar(ordenado, Len(ordenado), modo)]

----------------------------------------------------------------------------
(* Feature builder called on a table: SpecFeat *)

\* residual of location e on day t in the input tables
ResiduoDe(e, t) == ((t * t + 3 * e) % 7) * 5 - 15

NingunResultado == [error |-> "", rows |-> <<>>]

TablaVacia == [cols |-> ColumnasDB, rows |-> <<>>]

\* no call of predecir_hibrido has ended
SinLlamada == [ciudad |-> 0, dias_forecast |-> 0, estado |-> "", resultados |-> <<>>]

\* no forecast call is running and the stores are empty
ForecastEnReposo ==
    /\ anterior = SinLlamada
    /\ db = TablaVacia
    /\ sarima = [fin |-> 0]
    /\ xgb_model = [sesgo |-> 0, peso |-> 0]
    /\ features_names = <<>>
    /\ ciudad = santander
    /\ dias_forecast = 0
    /\ df_futuro_meteo = TablaVacia
    /\ sarima_forecast = <<>>
    /\ df_dinamico = TablaVacia
    /\ i = 0
    /\ resultados = <<>>
    /\ pasos = <<>>

\* no training step has run
SinCorrida ==
    [numero |-> 0, estado |-> "", mensual |-> FALSE, limpio |-> <<>>,
     omitidas |-> {}, df |-> TablaVacia, intentos |-> <<>>, df_feat |-> <<>>]

TrainEnReposo ==
    /\ dias_por_mes = 0
    /\ df_bal = TablaVacia
    /\ sarima_models = {}
    /\ xgb_guardados = {}
    /\ corrida = SinCorrida

\* get_data has not been called
SinGetData ==
    [ciudad |-> 0, modo_append |-> FALSE, falla |-> {}, antes |-> <<>>,
     retorno |-> <<>>, devuelve |-> FALSE]

\* descargar_datos_openmeteo has not been called
SinDescarga == [respuestas |-> <<>>, pausas |-> 0, resultado |-> ""]

\* the alert pipeline has not run
SinAlerta ==
    [df_pred |-> TablaVacia, preparado |-> <<>>, alertas |-> <<>>,
     enviados |-> <<>>]

\* predecir_hibrido has loaded no artifact
SinCarga ==
    [ciudad |-> 0, mensual |-> FALSE,
     sarima |-> [ciudad |-> 0, mensual |-> FALSE], xgb |-> ""]

AuxEnReposo ==
    /\ llamada = SinGetData
    /\ descarga = SinDescarga
    /\ alerta = SinAlerta
    /\ carga = SinCarga

FilasDe(d, e) == {j \in 1..Len(d.rows) : d.rows[j].estacion = e}

NumNaN(d) == Cardinality({j \in 1..Len(d.rows) : IsNaN(d.rows[j].residuo)})

Dias(d) == Cardinality(FilasDe(d, santander))

InitFeat ==
    /\ pc = "input"
    /\ \E conResiduo \in BOOLEAN :
          df = [cols |-> IF conResiduo THEN ColumnasDB \cup {"sarima_pred", "residuo"}
                         ELSE ColumnasDB,
                rows |-> <<>>]
    /\ modo_entrenamiento = FALSE
    /\ df_feat = NingunResultado
    /\ ForecastEnReposo
    /\ TrainEnReposo
    /\ today = Hoy
    /\ AuxEnReposo

\* The caller's table grows by one day: a row of santander, and a row of
\* sevilla from the day sevilla's series starts on.  Rows are in date order,
\* as train.py leaves them (sort_values("time")).
AgregarDia(falta, conSevilla) ==
    /\ pc = "input"
    /\ Dias(df) < MaxFilas
    /\ falta => "residuo" \in df.cols /\ NumNaN(df) < MaxNaN
    /\ conSevilla => "residuo" \in df.cols
    /\ FilasDe(df, sevilla) # {} => conSevilla
    /\ (conSevilla /\ FilasDe(df, sevilla) = {}) => Dias(df) <= MaxDesfase
    /\ LET t == Dias(df) + 1
           resA == IF falta \/ "residuo" \notin df.cols THEN NaN
                   ELSE ResiduoDe(santander, t)
           filaA == Fila(santander, t, NaN, NaN, resA, NaN)
           filaB == Fila(sevilla, t, NaN, NaN, ResiduoDe(sevilla, t), NaN)
       IN  df' = [df EXCEPT !.rows =
                      IF conSevilla THEN @ \o <<filaB, filaA>> ELSE Append(@, filaA)]
    /\ UNCHANGED <<varsAux, today, pc, modo_entrenamiento, df_feat, varsForecast, varsTrain>>

LlamarPreparar(modo) ==
    /\ pc = "input"
    /\ modo_entrenamiento' = modo
    /\ df_feat' = PrepararFeaturesXgb(df, modo)
    /\ pc' = "built"
    /\ UNCHANGED <<varsAux, today, df, varsForecast, varsTrain>>

NextFeat ==
    \/ \E falta \in BOOLEAN, conSevilla \in BOOLEAN : AgregarDia(falta, conSevilla)
    \/ \E modo \in BOOLEAN : LlamarPreparar(modo)

SpecFeat == InitFeat /\ [][NextFeat]_vars

----------------------------------------------------------------------------
(* pipeline/forecast.py : predecir_hibrido *)

\* The seasonal model's predicted mean for day t.  The model is opaque to the
\* forecaster; here it is a fixed function of the date, different every day.
SarimaMedia(t) == 15000 + 123 * t

\* sarima.get_forecast(steps).predicted_mean: one value per day, in calendar
\* order, starting the day after the series the model was fit on ends
GetForecast(modelo, steps) ==
    [k \in 1..steps |->
        [fecha |-> modelo.fin + k, valor |-> SarimaMedia(modelo.fin + k)]]

\* xgb_model.predict(X)[0]: the corrector's raw residual for a feature row.
\* The corrector is opaque; here it is linear in the lag-1 residual feature.
XgbPredict(modelo, fila) == modelo.sesgo + modelo.peso * fila.residuo_lag[1]

\* load_from_db(estacion): WHERE LOWER(estacion) = estacion.lower()
LoadFromDb(c) ==
    [cols |-> db.cols,
     rows |-> SelectSeq(db.rows, LAMBDA r : Lower(r.estacion) = Lower(c))]

InsertarPorTime(s, r) ==
    LET k == Cardinality({j \in 1..Len(s) : s[j].time <= r.time})
    IN  SubSeq(s, 1, k) \o <<r>> \o SubSeq(s, k + 1, Len(s))

\* df_all.sort_values("time")
RECURSIVE SortPorTime(_)
SortPorTime(rows) ==
    IF rows = <<>> THEN <<>>
    ELSE InsertarPorTime(SortPorTime(SubSeq(rows, 1, Len(rows) - 1)),
                         rows[Len(rows)])

\* fechas_futuras = [hoy + timedelta(days=i+1) for i in range(dias_forecast)]
FechasFuturasDesdeHoy(n) == [k \in 1..n |-> Hoy + k - 1]

FechasFuturas(n) == [k \in 1..n |-> Hoy + k]

\* pd.concat([tabla, fila]): the columns of both
Concat(tabla, fila) ==
    [cols |-> tabla.cols \cup {"sarima_pred"}, rows |-> Append(tabla.rows, fila)]

\* x * 1.6 and x * 1.4 (d = 16, 14), exact on multiples of 0.005 degrees
Por(x, d) == (x * d) \div 10

\* the wind-direction bands
BandasAbiertas(v_dir, residuo_pred) ==
    IF 160 < v_dir /\ v_dir < 220 THEN Por(residuo_pred, 16)
    ELSE IF v_dir < 40 \/ v_dir > 320 THEN Por(residuo_pred, 14)
    ELSE residuo_pred

Bandas(v_dir, residuo_pred) ==
    IF 160 <= v_dir /\ v_dir <= 220 THEN Por(residuo_pred, 16)
    ELSE IF v_dir <= 40 \/ v_dir >= 320 THEN Por(residuo_pred, 14)
    ELSE residuo_pred

PotenciadorSinCompuerta(es_meteo_real, v_dir, residuo_pred) ==
    Bandas(v_dir, residuo_pred)

\* residuo_final: the bands apply only to real covariates
Potenciador(es_meteo_real, v_dir, residuo_pred) ==
    IF es_meteo_real THEN Bandas(v_dir, residuo_pred) ELSE residuo_pred

\* round(x, 2) on thousandths: to the nearest hundredth, ties to even
Round2(x) ==
    LET q == x \div 10
        r == x % 10
    IN  IF r < 5 THEN 10 * q
        ELSE IF r > 5 THEN 10 * (q + 1)
        ELSE IF q % 2 = 0 THEN 10 * q ELSE 10 * (q + 1)

\* columns preparar_features_xgb adds to its input
ColumnasTemporales == {"dayofyear", "month", "dayofweek", "sin_doy", "cos_doy"}

ColumnasResiduo ==
    {"residuo_lag_1", "residuo_lag_3", "residuo_lag_7", "residuo_lag_14",
     "residuo_roll_mean_3", "residuo_roll_mean_7", "residuo_roll_mean_14",
     "residuo_roll_std_3", "residuo_roll_std_7", "residuo_roll_std_14"}

\* the columns of the feature matrix built from table d
ColumnasFeatures(d) == d.cols \cup ColumnasTemporales \cup ColumnasResiduo

\* X = fila_input[features_names]: the named columns in the given order,
\* or KeyError when a name is no column of the matrix
SeleccionarConRelleno(cols, names) == [error |-> FALSE, columnas |-> names]

SeleccionarColumnas(cols, names) ==
    IF \A k \in 1..Len(names) : names[k] \in cols
    THEN [error |-> FALSE, columnas |-> names]
    ELSE [error |-> TRUE, columnas |-> <<>>]

\* meteo_dia = df_futuro_meteo[df_futuro_meteo["time"] == fecha_target]
MeteoDia(fecha_target) ==
    SelectSeq(df_futuro_meteo.rows, LAMBDA r : r.time = fecha_target)

\* the row the step starts from: meteo_dia.iloc[:1], or df_dinamico.iloc[-1:]
FilaBasePersistente(fecha_target) ==
    IF df_dinamico.rows = <<>> THEN <<>>
    ELSE <<df_dinamico.rows[Len(df_dinamico.rows)]>>

FilaBase(fecha_target) ==
    IF MeteoDia(fecha_target) # <<>> THEN <<MeteoDia(fecha_target)[1]>>
    ELSE IF df_dinamico.rows = <<>> THEN <<>>
    ELSE <<df_dinamico.rows[Len(df_dinamico.rows)]>>

\* the synthetic row before the prediction: lines 89-92
PrepararFila(base, fecha_target, pred_base) ==
    [base EXCEPT !.time = fecha_target,
                 !.sarima_pred = pred_base,
                 !.temperature_2m_mean = pred_base,
                 !.estacion = ciudad]

\* the record appended to resultados
ForecastRowSinSuma(fecha_target, pred_base, v_dir, pred_final) ==
    [fecha |-> fecha_target, sarima |-> Round2(pred_base),
     viento_dir |-> v_dir, hibrida |-> Round2(pred_base)]

ForecastRow(fecha_target, pred_base, v_dir, pred_final) ==
    [fecha |-> fecha_target, sarima |-> Round2(pred_base),
     viento_dir |-> v_dir, hibrida |-> Round2(pred_final)]

\* df_hist = df_all[df_all["time"] < hoy]: the history the loop starts from
DfHistArrastrado(df_all) ==
    IF df_dinamico.rows # <<>> THEN df_dinamico
    ELSE [df_all EXCEPT !.rows = SelectSeq(@, LAMBDA r : r.time < Hoy)]

DfHist(df_all) ==
    [df_all EXCEPT !.rows = SelectSeq(@, LAMBDA r : r.time < Hoy)]

\* predecir_hibrido(ciudad, dias_forecast): lines 40-67
IniciarForecast(c, n) ==
    /\ pc = "idle"
    /\ ciudad' = c
    /\ dias_forecast' = n
    /\ LET df_all == [LoadFromDb(c) EXCEPT !.rows = SortPorTime(@)]
       IN  /\ df_dinamico' = DfHist(df_all)
           /\ df_futuro_meteo' =
                [df_all EXCEPT !.rows = SelectSeq(@, LAMBDA r : r.time >= Hoy)]
    /\ sarima_forecast' = GetForecast(sarima, n)
    /\ resultados' = <<>>
    /\ pasos' = <<>>
    /\ i' = 0
    /\ pc' = "loop"
    /\ UNCHANGED <<varsAux, today, varsFeat, varsTrain, db, sarima, xgb_model, features_names,
                   anterior>>

\* the exception leaves predecir_hibrido: nothing is returned
Abortar ==
    /\ pc' = "error"
    /\ UNCHANGED <<ciudad, dias_forecast, df_futuro_meteo, sarima_forecast,
                   df_dinamico, i, resultados, pasos>>

\* lines 73-97 of the loop body: the target date, the seasonal value, the
\* covariate row and the feature row of the step; error = the step raises
\* (no row to start from, KeyError in the feature builder, no feature row)
EntradaPaso ==
    LET fecha_target == FechasFuturas(dias_forecast)[i + 1]
        pred_base == sarima_forecast[i + 1].valor
        base == FilaBase(fecha_target)
    IN  IF base = <<>>
        THEN [error |-> TRUE]
        ELSE
          LET nueva_fila == PrepararFila(base[1], fecha_target, pred_base)
              df_temp_total == Concat(df_dinamico, nueva_fila)
              temp_feat == PrepararFeaturesXgb(df_temp_total, FALSE)
              X == SeleccionarColumnas(ColumnasFeatures(df_temp_total),
                                       features_names)
          IN  IF temp_feat.error # "" \/ X.error \/ temp_feat.rows = <<>>
              THEN [error |-> TRUE]
              ELSE [error |-> FALSE,
                    fecha_target |-> fecha_target,
                    fecha_sarima |-> sarima_forecast[i + 1].fecha,
                    pred_base |-> pred_base,
                    es_meteo_real |-> MeteoDia(fecha_target) # <<>>,
                    base |-> base[1],
                    nueva_fila |-> nueva_fila,
                    X |-> X.columnas,
                    fila_input |-> temp_feat.rows[Len(temp_feat.rows)]]

\* lines 101-121: the raw residual, the correction and the final value
SalidaPaso(e) ==
    LET residuo_pred == XgbPredict(xgb_model, e.fila_input)
        v_dir == e.nueva_fila.wind_direction_10m_dominant
        residuo_final == Potenciador(e.es_meteo_real, v_dir, residuo_pred)
    IN  [residuo_pred |-> residuo_pred,
         v_dir |-> v_dir,
         residuo_final |-> residuo_final,
         pred_final |-> e.pred_base + residuo_final]

\* line 134: the synthetic row that joins the running history
FilaHistoria(e, o) ==
    [e.nueva_fila EXCEPT !.temperature_2m_mean = o.pred_final]

\* one pass of the loop body: lines 72-135
PasoForecast ==
    /\ pc = "loop"
    /\ i < dias_forecast
    /\ \E e \in {EntradaPaso} :
          IF e.error
          THEN Abortar
          ELSE \E o \in {SalidaPaso(e)} :
                 /\ resultados' = Append(resultados,
                        ForecastRow(e.fecha_target, e.pred_base, o.v_dir,
                                    o.pred_final))
                 /\ df_dinamico' = Concat(df_dinamico, FilaHistoria(e, o))
                 /\ i' = i + 1
                 /\ pasos' = Append(pasos,
                        [fecha_target |-> e.fecha_target,
                         fecha_sarima |-> e.fecha_sarima,
                         pred_base |-> e.pred_base,
                         es_meteo_real |-> e.es_meteo_real,
                         base |-> e.base,
                         fila_input |-> e.fila_input,
                         X |-> e.X,
                         residuo_pred |-> o.residuo_pred,
                         v_dir |-> o.v_dir,
                         residuo_final |-> o.residuo_final,
                         pred_final |-> o.pred_final,
                         fila_historia |-> FilaHistoria(e, o)])
                 /\ pc' = "loop"
                 /\ UNCHANGED <<ciudad, dias_forecast, df_futuro_meteo,
                                sarima_forecast>>
    /\ UNCHANGED <<varsAux, today, varsFeat, varsTrain, db, sarima, xgb_model, features_names,
                   anterior>>

\* return pd.DataFrame(resultados): line 137
TerminarForecast ==
    /\ pc = "loop"
    /\ i = dias_forecast
    /\ pc' = "done"
    /\ UNCHANGED <<varsAux, today, varsFeat, varsForecast, varsTrain>>

----------------------------------------------------------------------------
(* The forecaster called on a store: SpecForecast *)

\* wind directions (degrees) of the stored rows, around the band edges
Dirs == <<0, 40, 41, 160, 220, 221, 320>>

DirDe(t, semilla) == Dirs[((t + semilla) % Len(Dirs)) + 1]

TempDe(t) == 14000 + 10 * t

\* magnitude the corrected residual must stay within (spec 4.6)
ClampResiduo == 5000

\* the feature names a persisted corrector may carry: names the feature
\* builder provides, or a list with a name it does not provide
FeaturesCompletas == <<"sarima_pred", "residuo_lag_1", "wind_direction_10m_dominant">>
FeaturesAjenas == <<"sarima_pred", "residuo_lag_2", "residuo_lag_1">>

\* the persisted correctors the model store may hold
Modelos ==
    {[sesgo |-> 250, peso |-> 1], [sesgo |-> ClampResiduo, peso |-> 0]}

\* the stored rows of santander: nHist days up to yesterday, and the days
\* today + o for o in presentes (the forecast feed)
FilasGuardadas(nHist, presentes, conResiduo, futuroConResiduo, semilla) ==
    LET fila(t) ==
            Fila(santander, t, TempDe(t), DirDe(t, semilla),
                 IF conResiduo /\ (t < Hoy \/ futuroConResiduo)
                 THEN ResiduoDe(santander, t) ELSE NaN,
                 NaN)
        desfases == SelectSeq([k \in 1..(MaxDias + 1) |-> k - 1],
                              LAMBDA o : o \in presentes)
    IN  [j \in 1..Len(desfases) |-> fila(Hoy + desfases[j])]
        \o [k \in 1..nHist |-> fila(Hoy - nHist + k - 1)]

InitForecast ==
    /\ pc = "idle"
    /\ df = TablaVacia
    /\ modo_entrenamiento = FALSE
    /\ df_feat = NingunResultado
    /\ \E nHist \in {0} \cup ((MaxHist - 1)..MaxHist),
          presentes \in SUBSET (0..MaxDias),
          conResiduo \in BOOLEAN, futuroConResiduo \in BOOLEAN,
          semilla \in 0..(Len(Dirs) - 1),
          fin \in (Hoy - 1)..(Hoy + 1),
          m \in Modelos,
          nombres \in {FeaturesCompletas, FeaturesAjenas} :
          \* a call on a store with no history or no residual column, or
          \* with a feature name the matrix lacks, fails at its first step,
          \* whatever the other inputs are
          /\ (nHist = 0 \/ ~conResiduo \/ nombres = FeaturesAjenas)
                => /\ ~futuroConResiduo /\ semilla = 0 /\ fin = Hoy
                   /\ m.peso = 1
          /\ db = [cols |-> IF conResiduo THEN ColumnasDB \cup {"residuo"}
                            ELSE ColumnasDB,
                   rows |-> FilasGuardadas(nHist, presentes, conResiduo,
                                           futuroConResiduo, semilla)]
          /\ sarima = [fin |-> fin]
          /\ xgb_model = m
          /\ features_names = nombres
    /\ ciudad = santander
    /\ dias_forecast = 0
    /\ df_futuro_meteo = TablaVacia
    /\ sarima_forecast = <<>>
    /\ df_dinamico = TablaVacia
    /\ i = 0
    /\ resultados = <<>>
    /\ pasos = <<>>
    /\ anterior = SinLlamada
    /\ TrainEnReposo
    /\ today = Hoy
    /\ AuxEnReposo

NextForecast ==
    \/ \E c \in {Santander, santander}, n \in 1..MaxDias : IniciarForecast(c, n)
    \/ PasoForecast
    \/ TerminarForecast

SpecForecast == InitForecast /\ [][NextForecast]_vars

----------------------------------------------------------------------------
(* Properties of the feature builder *)

Ordenado == SortValues(df.rows)

\* rows of the same location that precede row p of the sorted table
Anteriores(rows, p) ==
    {q \in 1..Len(rows) :
        rows[q].estacion = rows[p].estacion /\ rows[q].time < rows[p].time}

\* history depth of row p: how many rows of its location precede it
Profundidad(rows, p) == Cardinality(Anteriores(rows, p))

MaxVentana == 14

\* the MaxVentana rows just before p in its location exist and carry a residual
HistoriaCompleta(rows, p) ==
    /\ Profundidad(rows, p) >= MaxVentana
    /\ \A q \in Anteriores(rows, p) :
          Profundidad(rows, p) - Profundidad(rows, q) <= MaxVentana
              => ~IsNaN(rows[q].residuo)

Clave(r) == <<r.estacion, r.time>>

Emitidas == {Clave(df_feat.rows[j].fila) : j \in 1..Len(df_feat.rows)}

\* C4 (as claimed): in inference mode preparar_features_xgb raises no error
\* and emits one feature row per input row, whatever the residual history.
C4_InferenciaTolerante ==
    (pc = "built" /\ ~modo_entrenamiento)
        => /\ df_feat.error = ""
           /\ Len(df_feat.rows) = Len(df.rows)

\* rows of the sorted table whose history depth is below the largest window
PocoProfundas(rows) ==
    {p \in 1..Len(rows) : Profundidad(rows, p) < MaxVentana}

\* C9 (as claimed): in training mode the number of dropped rows is the number
\* of rows whose history depth in their location is below max(lag, window).
C9_DescartadasPorProfundidad ==
    (pc = "built" /\ modo_entrenamiento /\ df_feat.error = "")
        => Len(df.rows) - Len(df_feat.rows)
             = Cardinality(PocoProfundas(Ordenado))

\* C9 (amended): in training mode every emitted row has all lag and rolling
\* columns non-null; the emitted rows are exactly the rows that carry a
\* residual and whose 14 preceding rows of the same location exist and carry
\* one; with no residual missing, the dropped rows are the first 14 of each
\* location.
C9_FilasEmitidas ==
    (pc = "built" /\ modo_entrenamiento /\ df_feat.error = "")
        => LET rows == Ordenado
               emitidas == Emitidas
           IN  /\ \A j \in 1..Len(df_feat.rows) : LagsCompletos(df_feat.rows[j])
               /\ emitidas = {Clave(rows[p]) : p \in
                                 {q \in 1..Len(rows) :
                                     /\ ~IsNaN(rows[q].residuo)
                                     /\ HistoriaCompleta(rows, q)}}
               /\ Len(df_feat.rows) = Cardinality(emitidas)
               /\ NumNaN(df) = 0
                     => Len(df.rows) - Len(df_feat.rows)
                          = Cardinality(PocoProfundas(rows))

\* a training-mode call that emitted rows of both locations and dropped others
C9_Testigo ==
    /\ pc = "built" /\ modo_entrenamiento
    /\ \E j, k \in 1..Len(df_feat.rows) :
          /\ df_feat.rows[j].fila.estacion = santander
          /\ df_feat.rows[k].fila.estacion = sevilla
    /\ Len(df_feat.rows) < Len(df.rows)

Centinelas == {NaN, 999}

Inyectar(rows, q, s) == [rows EXCEPT ![q].residuo = s]

SoloFeatures(f) == <<f.residuo_lag, f.residuo_roll_mean, f.residuo_roll_std>>

\* every residual that row p's features may read kept, every other one
\* (row p's own, later rows', other locations') replaced by s
Enmascarar(rows, p, s) ==
    [q \in 1..Len(rows) |->
        IF rows[q].estacion = rows[p].estacion /\ rows[q].time < rows[p].time
        THEN rows[q]
        ELSE [rows[q] EXCEPT !.residuo = s]]

\* C10: replacing row T's own residual by a sentinel leaves every lag and
\* rolling feature of row T unchanged, and so does replacing every residual
\* but those of the rows before T in T's location.
C10_SinLookahead ==
    pc = "input" =>
        LET rows == Ordenado
        IN  \A p \in 1..Len(rows) :
               LET base == SoloFeatures(FeaturesDeFila(rows, p))
               IN  \A s \in Centinelas :
                      /\ SoloFeatures(FeaturesDeFila(Inyectar(rows, p, s), p)) = base
                      /\ SoloFeatures(FeaturesDeFila(Enmascarar(rows, p, s), p)) = base

\* an input table with a row whose lag and rolling features are all defined
\* and whose own residual is one the sentinel replaces
C10_Testigo ==
    /\ pc = "input"
    /\ \E p \in 1..Len(df.rows) :
          /\ LagsCompletos(FeaturesDeFila(Ordenado, p))
          /\ Ordenado[p].residuo \notin Centinelas
          /\ Ordenado[p].estacion = sevilla

----------------------------------------------------------------------------
(* Properties of the recursive forecaster *)

Abs(x) == IF x < 0 THEN 0 - x ELSE x

\* stored rows of the requested location dated t
GuardadasEn(t) ==
    {r \in {db.rows[j] : j \in 1..Len(db.rows)} :
        Lower(r.estacion) = Lower(ciudad) /\ r.time = t}

\* the stored rows of the requested location dated before today
Historicas ==
    {r \in {db.rows[j] : j \in 1..Len(db.rows)} :
        Lower(r.estacion) = Lower(ciudad) /\ r.time < Hoy}

\* C1: a call that returns has produced dias_forecast rows, dated
\* today+1 .. today+dias_forecast in this order.
C1_FechasConsecutivas ==
    pc = "done"
        => /\ Len(resultados) = dias_forecast
           /\ \A k \in 1..Len(resultados) : resultados[k].fecha = Hoy + k

\* a call with a horizon of two days or more has returned
C1_Testigo == pc = "done" /\ dias_forecast >= 2 /\ Len(resultados) >= 2

\* C2 (as claimed): the seasonal value a step uses is the seasonal model's
\* forecast for that step's target date.
C2_SarimaAlineado ==
    \A k \in 1..Len(pasos) : pasos[k].fecha_sarima = pasos[k].fecha_target

\* C3 (as claimed): the lag-1 residual feature of step k+1 is the corrected
\* residual step k predicted (stated for the steps whose feature row is the
\* row of their own target date in the requested location).
C3_LagVeElPasoAnterior ==
    \A k \in 1..Len(pasos) :
        (k > 1 /\ pasos[k].fila_input.fila.time = pasos[k].fecha_target
               /\ pasos[k].fila_input.fila.estacion = ciudad)
            => pasos[k].fila_input.residuo_lag[1] = pasos[k - 1].residuo_final

\* C5: a step falls back, with the flag False, exactly when the store holds
\* no row of the location dated its target date; the fallback starts from
\* the last row of the running history (the previous step's synthetic row,
\* or the latest stored row before today); every other step starts from the
\* stored row of its target date, with the flag True.
C5_PersistenciaPorDia ==
    \A k \in 1..Len(pasos) :
        LET p == pasos[k]
        IN  /\ p.es_meteo_real <=> GuardadasEn(p.fecha_target) # {}
            /\ p.es_meteo_real => p.base \in GuardadasEn(p.fecha_target)
            /\ ~p.es_meteo_real =>
                  IF k > 1 THEN p.base = pasos[k - 1].fila_historia
                  ELSE /\ p.base \in Historicas
                       /\ \A r \in Historicas : r.time <= p.base.time

\* a step on real covariates right after a fallback step
C5_Testigo ==
    \E k \in 1..Len(pasos) :
        k > 1 /\ ~pasos[k - 1].es_meteo_real /\ pasos[k].es_meteo_real

\* C6: on fallback covariates the corrected residual is the raw residual;
\* the two differ only on real covariates.
C6_SoloConMeteoReal ==
    \A k \in 1..Len(pasos) :
        /\ ~pasos[k].es_meteo_real
              => pasos[k].residuo_final = pasos[k].residuo_pred
        /\ pasos[k].residuo_final # pasos[k].residuo_pred
              => pasos[k].es_meteo_real

\* a fallback step whose repeated row carries a wind direction inside a band
\* and whose raw residual is not zero
C6_Testigo ==
    \E k \in 1..Len(pasos) :
        /\ ~pasos[k].es_meteo_real
        /\ pasos[k].residuo_pred # 0
        /\ Bandas(pasos[k].v_dir, pasos[k].residuo_pred) # pasos[k].residuo_pred

\* C7 (as claimed): the corrected residual stays within the clamp, and so
\* does the distance of the final temperature from the seasonal estimate.
C7_ResiduoAcotado ==
    \A k \in 1..Len(pasos) :
        /\ Abs(pasos[k].residuo_final) <= ClampResiduo
        /\ Abs(pasos[k].pred_final - pasos[k].pred_base) <= ClampResiduo

\* C8 (as claimed): 'hibrida' is the row's seasonal estimate plus the
\* corrected residual, and the synthetic history row carries that value.
C8_HibridaEsLaSuma ==
    \A k \in 1..Len(pasos) :
        /\ resultados[k].hibrida = resultados[k].sarima + pasos[k].residuo_final
        /\ pasos[k].fila_historia.temperature_2m_mean = resultados[k].hibrida

\* C8 (amended): 'hibrida' is the unrounded seasonal estimate plus the
\* corrected residual, rounded to two decimals; 'sarima' is the seasonal
\* estimate rounded to two decimals; the synthetic history row carries the
\* unrounded sum.
C8_HibridaRedondeada ==
    /\ Len(resultados) = Len(pasos)
    /\ \A k \in 1..Len(pasos) :
          /\ resultados[k].hibrida
                = Round2(pasos[k].pred_base + pasos[k].residuo_final)
          /\ resultados[k].sarima = Round2(pasos[k].pred_base)
          /\ pasos[k].fila_historia.temperature_2m_mean
                = pasos[k].pred_base + pasos[k].residuo_final
          /\ pasos[k].fila_historia.time = resultados[k].fecha

\* a step with a non-zero corrected residual whose sum the rounding changes
C8_Testigo ==
    \E k \in 1..Len(pasos) :
        /\ pasos[k].residuo_final # 0
        /\ resultados[k].hibrida # pasos[k].fila_historia.temperature_2m_mean

----------------------------------------------------------------------------
(* Location boundaries in the feature builder *)

\* the rows of location e, in the order of the table
Solo(rows, e) == SelectSeq(rows, LAMBDA r : r.estacion = e)

Estaciones(rows) == {rows[j].estacion : j \in 1..Len(rows)}

\* C11: every lag and rolling value of every row of a table with several
\* locations, emitted or not, is the value the feature builder computes on
\* the row's location alone, and the rows emitted for a location are the
\* rows emitted from that location alone.
C11_SinCruceDeEstacion ==
    (pc = "built" /\ df_feat.error = "")
        => LET rows == Ordenado
           IN  \A e \in Estaciones(rows) :
                 LET solo == SortValues(Solo(df.rows, e))
                     antes == Cardinality({j \in 1..Len(rows) :
                                              rows[j].estacion < e})
                 IN  /\ \A q \in 1..Len(solo) :
                           FeaturesDeFila(rows, antes + q)
                               = FeaturesDeFila(solo, q)
                     /\ SelectSeq(df_feat.rows,
                                  LAMBDA f : f.fila.estacion = e)
                           = Filtrar(solo, Len(solo), modo_entrenamiento)

\* a table of two locations with interleaved dates was built, and rows of
\* the location sorted second were emitted
C11_Testigo ==
    /\ pc = "built"
    /\ Cardinality(FilasDe(df, santander)) > MaxVentana
    /\ Cardinality(FilasDe(df, sevilla)) > MaxVentana
    /\ \E j \in 1..Len(df_feat.rows) : df_feat.rows[j].fila.estacion = sevilla
    /\ \E j \in 1..Len(df_feat.rows) : df_feat.rows[j].fila.estacion = santander

----------------------------------------------------------------------------
(* features/muestreo.py : muestreo_mensual *)

\* days in a month of the model's calendar
LargoMes == 3
\* most days the table handed to muestreo_mensual spans
MaxDiasMuestreo == 5
\* largest dias_por_mes
MaxPorMes == 2

\* (df["time"].dt.year, df["time"].dt.month) of day t, as one month number
AnioMes(t) == (t - 1) \div LargoMes

\* positions of the rows of the sorted table that share the month of row p:
\* one group of groupby([year, month])
GrupoMes(rows, p) ==
    {q \in 1..Len(rows) : AnioMes(rows[q].time) = AnioMes(rows[p].time)}

\* lambda x: x.iloc[-dias_por_mes:] if len(x) >= dias_por_mes else x,
\* as the positions of the sorted table that stay
QuedaEnMuestra(rows, p, n) ==
    LET x == GrupoMes(rows, p)
    IN  \/ Cardinality(x) < n
        \/ Cardinality({q \in x : q > p}) < n

\* muestreo_mensual(df, dias_por_mes): the groups are runs of the table
\* sorted by time and come back in month order
MuestreoMensual(d, n) ==
    LET rows == SortPorTime(d.rows)
        queda == {p \in 1..Len(rows) : QuedaEnMuestra(rows, p, n)}
        F[p \in 0..Len(rows)] ==
            IF p = 0 THEN <<>>
            ELSE IF p \in queda THEN Append(F[p - 1], rows[p]) ELSE F[p - 1]
    IN  [cols |-> d.cols, rows |-> F[Len(rows)]]

----------------------------------------------------------------------------
(* muestreo_mensual called on a table: SpecMuestreo *)

\* the rows one day adds to the table: none, one location, or both in
\* either order (rows of one date come in no fixed order)
FilasDelDia ==
    {<<santander>>, <<sevilla>>,
     <<santander, sevilla>>, <<sevilla, santander>>}

\* the latest date of a table in date order (0 for the empty table)
UltimoDia(d) == IF d.rows = <<>> THEN 0 ELSE d.rows[Len(d.rows)].time

InitMuestreo ==
    /\ pc = "tabla"
    /\ df = TablaVacia
    /\ modo_entrenamiento = FALSE
    /\ df_feat = NingunResultado
    /\ ForecastEnReposo
    /\ TrainEnReposo
    /\ today = Hoy
    /\ AuxEnReposo

\* the table gains the rows of a later day t; days may be missing
AgregarDiaMuestreo(t, es) ==
    /\ pc = "tabla"
    /\ t > UltimoDia(df)
    /\ df' = [df EXCEPT !.rows =
                @ \o [k \in 1..Len(es) |->
                        Fila(es[k], t, TempDe(t), NaN, NaN, NaN)]]
    /\ UNCHANGED <<varsAux, today, pc, modo_entrenamiento, df_feat, varsForecast, varsTrain>>

LlamarMuestreo(n) ==
    /\ pc = "tabla"
    /\ dias_por_mes' = n
    /\ df_bal' = MuestreoMensual(df, n)
    /\ pc' = "muestra"
    /\ UNCHANGED <<varsAux, today, varsFeat, varsForecast, sarima_models, xgb_guardados,
                   corrida>>

NextMuestreo ==
    \/ \E t \in 1..MaxDiasMuestreo, es \in FilasDelDia :
          AgregarDiaMuestreo(t, es)
    \/ \E n \in 1..MaxPorMes : LlamarMuestreo(n)

SpecMuestreo == InitMuestreo /\ [][NextMuestreo]_vars

----------------------------------------------------------------------------
(* Properties of the monthly resampling *)

\* the rows of a table that belong to location e and month m
FilasDeGrupo(rows, e, m) ==
    {rows[j] : j \in {k \in 1..Len(rows) :
                        rows[k].estacion = e /\ AnioMes(rows[k].time) = m}}

\* C12 (as claimed): of every (location, month) group with dias_por_mes days
\* or more the output holds exactly the dias_por_mes latest days, and of
\* every smaller group it holds all days.
C12_UltimosDiasPorEstacion ==
    pc = "muestra" =>
        \A e \in Estaciones(df.rows) :
          \A m \in {AnioMes(df.rows[j].time) : j \in 1..Len(df.rows)} :
            LET g == FilasDeGrupo(df.rows, e, m)
                sale == FilasDeGrupo(df_bal.rows, e, m)
            IN  IF Cardinality(g) >= dias_por_mes
                THEN /\ Cardinality(sale) = dias_por_mes
                     /\ sale \subseteq g
                     /\ \A r \in sale : \A o \in g \ sale : o.time < r.time
                ELSE sale = g

----------------------------------------------------------------------------
(* pipeline/train.py : entrenar_modelos, entrenar_modelos_mensual *)

\* fewest rows of a location that get a seasonal model.  The source has
\* 730; the model scales it to the tables it can enumerate, keeping it, like
\* 730, above the largest lag and rolling window (14).
MinFilasSarima == 15

\* df.dropna(subset=["temperature_2m_mean", "time"]).sort_values("time")
Limpiar(d) ==
    [d EXCEPT !.rows =
        SortPorTime(SelectSeq(@, LAMBDA r : ~IsNaN(r.temperature_2m_mean)))]

\* The seasonal model's in-sample fitted value for location e on day t.
\* The model is opaque; here the value differs by day and by location.
ValorAjustado(e, t) == SarimaMedia(t) + 500 * e

\* entrenar_sarima(df_city): the model of the location's daily series, which
\* preparar_serie_sarima fills to every day from its first to its last date
EntrenarSarima(df_city) ==
    [ciudad |-> df_city[1].estacion,
     inicio |-> df_city[1].time,
     fin |-> df_city[Len(df_city)].time]

\* sarima.get_prediction(dynamic=False).predicted_mean: one value per day
\* of the fitted series, indexed by date
GetPrediction(modelo) ==
    [k \in 1..(modelo.fin - modelo.inicio + 1) |->
        [fecha |-> modelo.inicio + k - 1,
         valor |-> ValorAjustado(modelo.ciudad, modelo.inicio + k - 1)]]

\* preds.reindex(df_city["time"]).reset_index(drop=True): by date
ReindexPosicional(preds, times) == [k \in 1..Len(times) |-> preds[k].valor]

Reindex(preds, times) ==
    [k \in 1..Len(times) |->
        LET hits == {j \in 1..Len(preds) : preds[j].fecha = times[k]}
        IN  IF hits = {} THEN NaN ELSE preds[CHOOSE j \in hits : TRUE].valor]

\* if len(df_city) < 730: continue
SiempreSuficiente(df_city) == TRUE

Suficiente(df_city) == Len(df_city) >= MinFilasSarima

\* df_city = df[df["estacion"] == ciudad].sort_values("time")
DfCity(rows, c) == SortPorTime(Solo(rows, c))

\* the loop over ciudades: df.loc[df["estacion"] == ciudad, "sarima_pred"]
\* = preds.values for every location that is fit; pd.NA for the others
ConSarimaPred(rows, ajustadas) ==
    [p \in 1..Len(rows) |->
        LET c == rows[p].estacion
        IN  IF c \notin ajustadas THEN rows[p]
            ELSE LET df_city == DfCity(rows, c)
                     preds == Reindex(GetPrediction(EntrenarSarima(df_city)),
                                  [k \in 1..Len(df_city) |-> df_city[k].time])
                     k == Cardinality({q \in 1..p : rows[q].estacion = c})
                 IN  [rows[p] EXCEPT !.sarima_pred = preds[k]]]

\* df.dropna(subset=["sarima_pred"]) and df["residuo"] =
\* df["temperature_2m_mean"] - df["sarima_pred"]
ConResiduo(d, filas) ==
    LET quedan == SelectSeq(filas, LAMBDA r : ~IsNaN(r.sarima_pred))
    IN  [cols |-> d.cols \cup {"sarima_pred", "residuo"},
         rows |-> [p \in 1..Len(quedan) |->
                     [quedan[p] EXCEPT
                        !.residuo = quedan[p].temperature_2m_mean
                                      - quedan[p].sarima_pred]]]

\* if df_feat.empty: raise ValueError
DfFeatNuncaVacio(feat) == FALSE

DfFeatVacio(feat) == feat.rows = <<>>

\* guardar_sarima(sarima, ciudad) / guardar_sarima(sarima, f"{ciudad}_mensual")
NombreSarima(c, mensual) == [ciudad |-> c, mensual |-> mensual]

\* guardar_xgboost(..., nombre="xgb_multiciudad" / "xgb_multiciudad_mensual")
NombreXgb(mensual) ==
    IF mensual THEN "xgb_multiciudad_mensual" ELSE "xgb_multiciudad"

\* One training run over the store, from load_from_db to the return or the
\* ValueError: what it leaves in 'corrida' and what it persists.
Corrida(mensual, n) ==
    LET limpio == Limpiar(db)
    IN  IF limpio.rows = <<>>
        THEN [corrida |-> [SinCorrida EXCEPT
                             !.estado = "ValueError: no hay datos",
                             !.mensual = mensual],
              muestra |-> TablaVacia, sarima |-> {}, xgb |-> {}]
        ELSE
          LET base == IF mensual THEN MuestreoMensual(limpio, n) ELSE limpio
              ciudades == Estaciones(base.rows)
              ajustadas == {c \in ciudades : Suficiente(DfCity(base.rows, c))}
              tabla == ConResiduo(base, ConSarimaPred(base.rows, ajustadas))
              feat == PrepararFeaturesXgb(tabla, TRUE)
              vacio == DfFeatVacio(feat)
          IN  [corrida |->
                  [numero |-> 0,
                   estado |-> IF vacio THEN "ValueError: df_feat vacio"
                              ELSE "ok",
                   mensual |-> mensual,
                   limpio |-> limpio.rows,
                   omitidas |-> ciudades \ ajustadas,
                   df |-> tabla,
                   intentos |-> <<TRUE>>,
                   df_feat |-> feat.rows],
               muestra |-> IF mensual THEN base ELSE TablaVacia,
               sarima |-> {[nombre |-> NombreSarima(c, mensual),
                            modelo |-> EntrenarSarima(DfCity(base.rows, c))] :
                              c \in ajustadas},
               xgb |-> IF vacio THEN {} ELSE {NombreXgb(mensual)}]

\* guardar_sarima / guardar_xgboost: the artifacts 'nuevos', written by run
\* 'numero', replace the stored artifacts of the same names
Guardar(store, nuevos, numero) ==
    {m \in store : \A x \in nuevos : x.nombre # m.nombre}
        \cup {[nombre |-> x.nombre, modelo |-> x.modelo, corrida |-> numero] :
                 x \in nuevos}

\* entrenar_modelos() (mensual = FALSE) and entrenar_modelos_mensual(n)
EntrenarModelos(mensual, n) ==
    /\ pc = "store"
    /\ \E c \in {Corrida(mensual, n)} :
          /\ corrida' = [c.corrida EXCEPT !.numero = corrida.numero + 1]
          /\ sarima_models' =
                Guardar(sarima_models, c.sarima, corrida.numero + 1)
          /\ xgb_guardados' =
                Guardar(xgb_guardados,
                        {[nombre |-> x, modelo |-> c.corrida.df_feat] :
                            x \in c.xgb},
                        corrida.numero + 1)
          /\ df_bal' = c.muestra
    /\ dias_por_mes' = IF mensual THEN n ELSE dias_por_mes
    /\ pc' = "trained"
    /\ UNCHANGED <<varsAux, today, varsFeat, varsForecast>>

----------------------------------------------------------------------------
(* A training run on a store: SpecTrain *)

\* most days the store spans
MaxDiasTrain == 16
\* most stored rows without a temperature
MaxSinTemp == 1
\* latest day, after the first, on which the second location's rows start
MaxDesfaseTrain == 2

InitTrain ==
    /\ pc = "store"
    /\ df = TablaVacia
    /\ modo_entrenamiento = FALSE
    /\ df_feat = NingunResultado
    /\ ForecastEnReposo
    /\ TrainEnReposo
    /\ today = Hoy
    /\ AuxEnReposo

SinTemp(d) ==
    Cardinality({j \in 1..Len(d.rows) : IsNaN(d.rows[j].temperature_2m_mean)})

\* the store gains the rows of the next day: one of santander, with or
\* without a temperature, and one of sevilla from the day its rows start
IngerirDia(sinTemp, conSevilla) ==
    /\ pc = "store"
    /\ UltimoDia(db) < MaxDiasTrain
    /\ sinTemp => SinTemp(db) < MaxSinTemp
    /\ FilasDe(db, sevilla) # {} => conSevilla
    /\ (conSevilla /\ FilasDe(db, sevilla) = {})
          => UltimoDia(db) <= MaxDesfaseTrain
    /\ LET t == UltimoDia(db) + 1
           filaA == Fila(santander, t, IF sinTemp THEN NaN ELSE TempDe(t),
                         DirDe(t, 0), NaN, NaN)
           filaB == Fila(sevilla, t, TempDe(t) + 3000, DirDe(t, 1), NaN, NaN)
       IN  db' = [db EXCEPT !.rows =
                     IF conSevilla THEN @ \o <<filaB, filaA>>
                     ELSE Append(@, filaA)]
    /\ UNCHANGED <<varsAux, today, pc, varsFeat, varsTrain, sarima, xgb_model,
                   features_names, ciudad,
                   dias_forecast, df_futuro_meteo, sarima_forecast,
                   df_dinamico, i, resultados, pasos, anterior>>

NextTrain ==
    \/ \E sinTemp \in BOOLEAN, conSevilla \in BOOLEAN :
          IngerirDia(sinTemp, conSevilla)
    \/ EntrenarModelos(FALSE, 0)
    \/ \E n \in {MaxPorMes, 2 * LargoMes} : EntrenarModelos(TRUE, n)

SpecTrain == InitTrain /\ [][NextTrain]_vars

----------------------------------------------------------------------------
(* Properties of the training run *)

\* the table the seasonal models of the run were fit on
BaseDeCorrida == IF corrida.mensual THEN df_bal.rows ELSE corrida.limpio

Fechas(rows, c) == {rows[j].time : j \in {k \in 1..Len(rows) : rows[k].estacion = c}}

\* the locations of the run with enough rows for a seasonal model
ConHistoria ==
    {c \in Estaciones(BaseDeCorrida) :
        Cardinality({j \in 1..Len(BaseDeCorrida) :
                        BaseDeCorrida[j].estacion = c}) >= MinFilasSarima}

\* C13: after a training run every row of a location with enough history
\* carries the seasonal model's fitted value of its own location and date,
\* and the dates that carry one are exactly the location's observation
\* dates, gaps included.
C13_AjusteAlineado ==
    pc = "trained" =>
        /\ \A j \in 1..Len(corrida.df.rows) :
              LET r == corrida.df.rows[j]
              IN  /\ r.sarima_pred = ValorAjustado(r.estacion, r.time)
                  /\ r.residuo = r.temperature_2m_mean
                                   - ValorAjustado(r.estacion, r.time)
        /\ \A c \in ConHistoria :
              Fechas(corrida.df.rows, c) = Fechas(BaseDeCorrida, c)

\* a run fit a location whose observation dates have a gap
C13_Testigo ==
    /\ pc = "trained"
    /\ corrida.estado = "ok"
    /\ \E c \in ConHistoria :
          \E t \in 1..MaxDiasTrain :
              /\ t \notin Fechas(corrida.df.rows, c)
              /\ t - 1 \in Fechas(corrida.df.rows, c)
              /\ t + 1 \in Fechas(corrida.df.rows, c)

\* the persisted seasonal model names
Nombres == {m.nombre : m \in sarima_models}

\* the persisted corrector names
NombresXgb == {m.nombre : m \in xgb_guardados}

\* C14: a location with fewer than MinFilasSarima usable rows gets no
\* seasonal model and none of its rows reach the corrector's training
\* matrix; every other location gets its model persisted, and the run ends
\* without error whenever some location has enough history.
C14_OmiteSinAbortar ==
    (pc = "trained" /\ corrida.limpio # <<>>) =>
        /\ \A c \in Estaciones(BaseDeCorrida) \ ConHistoria :
              /\ NombreSarima(c, corrida.mensual) \notin Nombres
              /\ \A j \in 1..Len(corrida.df_feat) :
                    corrida.df_feat[j].fila.estacion # c
              /\ c \in corrida.omitidas
        /\ \A c \in ConHistoria :
              /\ NombreSarima(c, corrida.mensual) \in Nombres
              /\ \E j \in 1..Len(corrida.df_feat) :
                    corrida.df_feat[j].fila.estacion = c
        /\ ConHistoria # {} =>
              /\ corrida.estado = "ok"
              /\ NombreXgb(corrida.mensual) \in NombresXgb

\* a run skipped one location and fit another
C14_Testigo ==
    /\ pc = "trained"
    /\ corrida.omitidas # {}
    /\ ConHistoria # {}
    /\ corrida.estado = "ok"

\* C15: a training run ends in an error exactly when no usable row was
\* loaded, when every location was skipped, or when the training-mode
\* feature matrix is empty; a run that ends in an error persists no
\* corrector.
C15_AbortaSinCorrector ==
    pc = "trained" =>
        /\ corrida.estado # "ok"
              <=> \/ corrida.limpio = <<>>
                  \/ ConHistoria = {}
                  \/ corrida.df_feat = <<>>
        /\ corrida.limpio = <<>> => corrida.estado = "ValueError: no hay datos"
        /\ corrida.estado # "ok" => NombresXgb = {}
        /\ corrida.estado = "ok" => NombresXgb = {NombreXgb(corrida.mensual)}

\* a run on a store with usable rows in which every location was skipped
C15_Testigo ==
    /\ pc = "trained"
    /\ corrida.limpio # <<>>
    /\ ConHistoria = {}
    /\ corrida.estado = "ValueError: df_feat vacio"

\* C16 (as claimed): when the training-mode feature matrix is empty the
\* run calls the feature builder once more, in inference mode.
C16_UnReintento ==
    (pc = "trained" /\ corrida.estado = "ValueError: df_feat vacio")
        => corrida.intentos = <<TRUE, FALSE>>

----------------------------------------------------------------------------
(* Failure modes and determinism of the forecaster *)

\* the persisted feature names the inference-mode feature matrix lacks
NombresAusentes ==
    {features_names[k] : k \in 1..Len(features_names)}
        \ ColumnasFeatures([cols |-> db.cols \cup {"sarima_pred"}])

\* C17: every step hands the corrector exactly the persisted feature names
\* in the persisted order, and a call whose persisted names are not all
\* columns of the feature matrix completes no step and returns nothing.
C17_ContratoDeFeatures ==
    /\ \A k \in 1..Len(pasos) : pasos[k].X = features_names
    /\ (pc # "idle" /\ NombresAusentes # {})
          => pasos = <<>> /\ resultados = <<>> /\ pc # "done"

\* a call on a store with a residual column and enough history was aborted
\* for a feature name the matrix lacks
C17_Testigo ==
    /\ pc = "error"
    /\ NombresAusentes # {}
    /\ "residuo" \in db.cols
    /\ Len(df_dinamico.rows) > MaxVentana

\* C18: a call for a location with no stored row dated before today, and so
\* a call for a location with no stored row at all, completes no step and
\* returns nothing.
C18_SinHistoriaAborta ==
    (pc # "idle" /\ Historicas = {})
        => pasos = <<>> /\ resultados = <<>> /\ pc # "done"

\* a call was aborted on a store that holds rows of the location, with a
\* residual column, but none dated before today
C18_Testigo ==
    /\ pc = "error"
    /\ Historicas = {}
    /\ GuardadasEn(Hoy + 1) # {}
    /\ "residuo" \in db.cols
    /\ NombresAusentes = {}

----------------------------------------------------------------------------
(* The forecaster called twice on the same store: SpecRepetir *)

\* the call has ended, by return or by exception; the caller may call again
VolverALlamar ==
    /\ pc \in {"done", "error"}
    /\ anterior = SinLlamada
    /\ anterior' = [ciudad |-> ciudad, dias_forecast |-> dias_forecast,
                    estado |-> pc, resultados |-> resultados]
    /\ pc' = "idle"
    /\ UNCHANGED <<varsAux, today, varsFeat, varsTrain, db, sarima, xgb_model, features_names,
                   ciudad, dias_forecast, df_futuro_meteo, sarima_forecast,
                   df_dinamico, i, resultados, pasos>>

\* stores with a residual column on the history only, a seasonal model fit
\* up to today and a corrector whose feature names the builder provides
InitRepetir ==
    /\ InitForecast
    /\ "residuo" \in db.cols
    /\ \A j \in 1..Len(db.rows) :
          db.rows[j].time >= Hoy => IsNaN(db.rows[j].residuo)
    /\ sarima.fin = Hoy
    /\ xgb_model.peso = 1
    /\ features_names = FeaturesCompletas

NextRepetir ==
    \/ NextForecast
    \/ VolverALlamar

SpecRepetir == InitRepetir /\ [][NextRepetir]_vars

----------------------------------------------------------------------------
(* data/ingest.py, data/get_data.py, data/ingest_exog.py *)

\* START_DATE, as a day number: the first day the archive is asked for
\* ("2000-01-01" in the source, two days before the model's first today)
StartDate == 18
\* days the forecast API returns from today on (7 at the API's default)
DiasPronostico == 2
\* last day an ingestion run may happen on, counted from Hoy
MaxDiasIngesta == 1
\* most rows the store holds
MaxFilasDb == 14

\* the rows a download of the days a..b yields, labelled e
Descarga(e, a, b) ==
    [k \in 1..(b - a + 1) |->
        Fila(e, a + k - 1, TempDe(a + k - 1), DirDe(a + k - 1, 0), NaN, NaN)]

\* borrar_ciudad(ciudad): DELETE ... WHERE LOWER(estacion) = ciudad.lower()
BorrarCiudad(rows, c) == SelectSeq(rows, LAMBDA r : Lower(r.estacion) # Lower(c))

\* the phases of get_data that can fail: the download returns nothing, the
\* cleaning leaves no row, the DELETE raises, the INSERT raises
Fases == {"descarga", "limpieza", "borrado", "insercion"}

\* get_data returns None before it touches the store: lines 75-77, 87-89
SaleAntes(fallan) == fallan \cap {"descarga", "limpieza"} # {}

\* borrar_ciudad swallows the exception of a failed DELETE: the rows stay
BorrarCiudadSeguro(rows, c, fallan) ==
    IF "borrado" \in fallan THEN rows ELSE BorrarCiudad(rows, c)

\* insertar_en_db swallows the exception of a failed INSERT: nothing is
\* added, and nothing is reported to the caller
InsertarEnDb(rows, nuevas, fallan) ==
    IF "insercion" \in fallan THEN rows ELSE rows \o nuevas

\* get_data(ciudad, ..., fecha_ini, fecha_fin, modo_append) on the rows of
\* the store, with the phases in 'fallan' failing when they are reached.  A
\* range that ends today or later is served by the forecast API, from
\* fecha_ini to the last forecast day.  The returned table carries the label
\* as passed; insertar_en_db stores it in lower case.
GetDataFases(rows, c, fecha_ini, fecha_fin, modo_append, fallan) ==
    IF SaleAntes(fallan)
    THEN [rows |-> rows, devuelve |-> FALSE, retorno |-> <<>>,
          fallas |-> IF "descarga" \in fallan THEN {"descarga"}
                     ELSE {"limpieza"}]
    ELSE LET hasta == IF fecha_fin >= today
                      THEN today + DiasPronostico - 1 ELSE fecha_fin
             quedan == IF modo_append THEN rows
                       ELSE BorrarCiudadSeguro(rows, c, fallan)
         IN  [rows |-> InsertarEnDb(quedan,
                                    Descarga(Lower(c), fecha_ini, hasta),
                                    fallan),
              devuelve |-> TRUE,
              retorno |-> Descarga(c, fecha_ini, hasta),
              fallas |-> fallan \cap (IF modo_append THEN {"insercion"}
                                      ELSE {"borrado", "insercion"})]

\* get_data with a download that returns rows (ok) or none, and a store
\* that takes every write
GetData(rows, c, fecha_ini, fecha_fin, modo_append, ok) ==
    GetDataFases(rows, c, fecha_ini, fecha_fin, modo_append,
                 IF ok THEN {} ELSE {"descarga"}).rows

\* ingest(): for the configured city, block 1 (START_DATE .. yesterday,
\* replacing the city's rows) and block 2 (today, appended)
Ingest(ok1, ok2) ==
    /\ pc = "ingest"
    /\ LET bloque1 == GetData(db.rows, santander, StartDate, today - 1,
                              FALSE, ok1)
           bloque2 == GetData(bloque1, santander, today, today, TRUE, ok2)
       IN  /\ Len(bloque2) <= MaxFilasDb
           /\ db' = [db EXCEPT !.rows = bloque2]
    /\ UNCHANGED <<varsAux, pc, today, varsFeat, varsTrain, sarima, xgb_model,
                   features_names, ciudad, dias_forecast, df_futuro_meteo,
                   sarima_forecast, df_dinamico, i, resultados, pasos,
                   anterior>>

\* ingest_exog(): the archive's rows START_DATE .. today of the city of
\* COORDS, appended with the label as written there
IngestExog(ok) ==
    /\ pc = "ingest"
    /\ LET nuevas == IF ok THEN Descarga(Santander, StartDate, today)
                     ELSE <<>>
       IN  /\ Len(db.rows) + Len(nuevas) <= MaxFilasDb
           /\ db' = [db EXCEPT !.rows = @ \o nuevas]
    /\ UNCHANGED <<varsAux, pc, today, varsFeat, varsTrain, sarima, xgb_model,
                   features_names, ciudad, dias_forecast, df_futuro_meteo,
                   sarima_forecast, df_dinamico, i, resultados, pasos,
                   anterior>>

\* midnight passes
PasarDia ==
    /\ pc = "ingest"
    /\ today < Hoy + MaxDiasIngesta
    /\ today' = today + 1
    /\ UNCHANGED <<varsAux, pc, varsFeat, varsForecast, varsTrain>>

InitIngest ==
    /\ pc = "ingest"
    /\ df = TablaVacia
    /\ modo_entrenamiento = FALSE
    /\ df_feat = NingunResultado
    /\ ForecastEnReposo
    /\ TrainEnReposo
    /\ today = Hoy
    /\ AuxEnReposo

NextIngest ==
    \/ \E ok1 \in BOOLEAN, ok2 \in BOOLEAN : Ingest(ok1, ok2)
    \/ \E ok \in BOOLEAN : IngestExog(ok)
    \/ PasarDia

SpecIngest == InitIngest /\ [][NextIngest]_vars

\* C20 (as claimed): the store never holds two rows with the same location
\* label and the same date.
C20_UnaFilaPorDia ==
    \A j \in 1..Len(db.rows) : \A k \in 1..Len(db.rows) :
        (db.rows[j].estacion = db.rows[k].estacion
            /\ db.rows[j].time = db.rows[k].time) => j = k

----------------------------------------------------------------------------
(* alerts/alert_rules.py : preparar_df_alertas *)

\* what preparar_df_alertas returns when it raises
AlertasError(msg) == [error |-> msg, cols |-> {}, rows |-> <<>>]

\* preparar_df_alertas(df_pred): df["time"] is read first (KeyError without
\* the column), the rows are sorted by it, 'pred_hibrida' falls back to
\* 'hibrido' and 'temperature_2m_min' to 'temperature_2m_mean' - 3 degrees
PrepararDfAlertas(d) ==
    IF "time" \notin d.cols THEN AlertasError("KeyError: time")
    ELSE IF "pred_hibrida" \notin d.cols /\ "hibrido" \notin d.cols
    THEN AlertasError("ValueError: pred_hibrida")
    ELSE IF "temperature_2m_min" \notin d.cols
            /\ "temperature_2m_mean" \notin d.cols
    THEN AlertasError("ValueError: temperature_2m_min")
    ELSE LET rows == SortPorTime(d.rows)
         IN  [error |-> "",
              cols |-> d.cols \cup {"pred_hibrida", "temperature_2m_min"},
              rows |-> [k \in 1..Len(rows) |->
                  [time |-> rows[k].time,
                   pred_hibrida |->
                       IF "pred_hibrida" \in d.cols THEN rows[k].pred_hibrida
                       ELSE rows[k].hibrido,
                   temperature_2m_min |->
                       IF "temperature_2m_min" \in d.cols
                       THEN rows[k].temperature_2m_min
                       ELSE rows[k].temperature_2m_mean - 3000]]]

\* pd.DataFrame(resultados): the table predecir_hibrido returns
ColumnasForecast == {"fecha", "sarima", "viento_dir", "hibrida"}

TablaDevuelta == [cols |-> ColumnasForecast, rows |-> resultados]

\* C21 (as claimed): preparar_df_alertas accepts every table that
\* predecir_hibrido returns, without raising.
C21_AlertasAceptanForecast ==
    pc = "done" => PrepararDfAlertas(TablaDevuelta).error = ""

----------------------------------------------------------------------------
(* The wind-direction bands *)

\* the band a direction falls in: south (foehn), north (maritime), or none
Sur(v) == 160 <= v /\ v <= 220
Norte(v) == v <= 40 \/ v >= 320

\* how many of the three cases apply to direction v
CasosQueAplican(v) ==
    (IF Sur(v) THEN 1 ELSE 0) + (IF Norte(v) THEN 1 ELSE 0)
        + (IF ~Sur(v) /\ ~Norte(v) THEN 1 ELSE 0)

\* C23: at a step on real covariates the corrected residual is the raw
\* residual times 1.6 for a direction in [160, 220], times 1.4 for one
\* <= 40 or >= 320 and the raw residual for any other; for every direction
\* in [0, 360] exactly one case applies, and the correction the code makes
\* of the step's raw residual is that case's.
C23_BandasDeViento ==
    \A k \in 1..Len(pasos) :
        LET p == pasos[k]
        IN  /\ p.es_meteo_real =>
                  /\ Sur(p.v_dir) => 10 * p.residuo_final = 16 * p.residuo_pred
                  /\ Norte(p.v_dir) => 10 * p.residuo_final = 14 * p.residuo_pred
                  /\ (~Sur(p.v_dir) /\ ~Norte(p.v_dir))
                        => p.residuo_final = p.residuo_pred
            /\ \A v \in 0..360 :
                  /\ CasosQueAplican(v) = 1
                  /\ 10 * Potenciador(TRUE, v, p.residuo_pred) =
                        (IF Sur(v) THEN 16 ELSE IF Norte(v) THEN 14 ELSE 10)
                            * p.residuo_pred

\* a call took two steps on real covariates with a non-zero raw residual:
\* one on the upper edge of the south band, the next just above it
C23_Testigo ==
    /\ Len(pasos) = 2
    /\ pasos[1].es_meteo_real /\ pasos[2].es_meteo_real
    /\ pasos[1].v_dir = 220 /\ pasos[2].v_dir = 221
    /\ pasos[1].residuo_pred # 0 /\ pasos[2].residuo_pred # 0
    /\ pasos[1].residuo_final # pasos[1].residuo_pred

----------------------------------------------------------------------------
(* Training runs and model loading on one model store: SpecModelos *)

\* most training runs on one model store
MaxCorridas == 2

\* the values of dias_por_mes the monthly runs are called with
DiasPorMes == {MaxPorMes, 2 * LargoMes - 1, 2 * LargoMes}

\* the trainer has returned or raised; it may be run again
OtraCorrida ==
    /\ pc = "trained"
    /\ corrida.numero < MaxCorridas
    /\ pc' = "store"
    /\ UNCHANGED <<varsAux, today, varsFeat, varsForecast, varsTrain>>

\* predecir_hibrido(c, ..., modo): lines 40-42, the names it asks the model
\* store for
CargarModelos(c, mensual) ==
    /\ pc = "trained"
    /\ carga' = [ciudad |-> c, mensual |-> mensual,
                 sarima |-> NombreSarima(c, mensual),
                 xgb |-> NombreXgb(mensual)]
    /\ UNCHANGED <<pc, today, varsFeat, varsForecast, varsTrain, llamada,
                   descarga, alerta>>

\* the store is filled before the first run and stays as it is afterwards
IngerirAntes(conSevilla) ==
    /\ corrida.numero = 0
    /\ IngerirDia(FALSE, conSevilla)

NextModelos ==
    \/ \E conSevilla \in BOOLEAN : IngerirAntes(conSevilla)
    \/ EntrenarModelos(FALSE, 0)
    \/ \E n \in DiasPorMes : EntrenarModelos(TRUE, n)
    \/ OtraCorrida
    \/ \E c \in {Santander, santander, sevilla}, mensual \in BOOLEAN :
          CargarModelos(c, mensual)

SpecModelos == InitTrain /\ [][NextModelos]_vars

\* the runs that wrote the persisted artifacts of a mode
CorridasDe(mensual) ==
    {m.corrida : m \in {x \in sarima_models : x.nombre.mensual = mensual}}
        \cup {m.corrida :
                 m \in {x \in xgb_guardados : x.nombre = NombreXgb(mensual)}}

\* C27 (as claimed): after a training run the persisted seasonal models and
\* the persisted corrector of the run's mode were all written by one run,
\* and a run that ended in an error wrote no artifact.
C27_ArtefactosDeUnaCorrida ==
    pc = "trained" =>
        /\ Cardinality(CorridasDe(corrida.mensual)) <= 1
        /\ corrida.estado # "ok" =>
              /\ \A m \in sarima_models : m.corrida # corrida.numero
              /\ \A m \in xgb_guardados : m.corrida # corrida.numero

\* C28 (as claimed): for a location the last run trained, the names
\* predecir_hibrido asks for in the run's mode are names the trainer
\* persisted, whatever the letter case the location is requested in.
C28_NombresCoinciden ==
    (pc = "trained" /\ carga # SinCarga /\ corrida.estado = "ok"
        /\ carga.mensual = corrida.mensual
        /\ Lower(carga.ciudad) \in ConHistoria) =>
        /\ carga.sarima \in Nombres
        /\ carga.xgb \in NombresXgb

----------------------------------------------------------------------------
(* The feature row the corrector is given *)

\* C26 (as claimed): at every step the feature row passed to the corrector
\* is the row of the step's target date and of the requested location,
\* whatever the letter case of the requested name.
C26_FilaDelDiaObjetivo ==
    \A k \in 1..Len(pasos) :
        /\ pasos[k].fila_input.fila.time = pasos[k].fecha_target
        /\ pasos[k].fila_input.fila.estacion = ciudad

\* the dates of the stored rows of the requested location
FechasGuardadas ==
    {db.rows[j].time : j \in {k \in 1..Len(db.rows) :
                                Lower(db.rows[k].estacion) = Lower(ciudad)}}

\* the store holds one row per day of the location, with no day missing
\* between its first and its last
SinHuecos ==
    /\ \A t \in FechasGuardadas : Cardinality(GuardadasEn(t)) = 1
    /\ \A a \in FechasGuardadas : \A b \in FechasGuardadas :
          \A t \in a..b : t \in FechasGuardadas

\* C29 (as claimed): on a store without gaps the running history of every
\* step (the table the feature builder was given, which is the running
\* history once the step has ended) is a run of consecutive days that ends
\* at the step's target date, and the stored row dated today is in it.
C29_HistoriaContinua ==
    (pc \in {"loop", "done"} /\ Len(pasos) >= 1 /\ SinHuecos) =>
        LET h == df_dinamico.rows
        IN  /\ h[Len(h)].time = pasos[Len(pasos)].fecha_target
            /\ \A j \in 2..Len(h) : h[j].time = h[j - 1].time + 1
            /\ GuardadasEn(Hoy) # {} => \E j \in 1..Len(h) : h[j].time = Hoy

----------------------------------------------------------------------------
(* alerts/alert_rules.py : detectar_alertas; alerts/alert_sender.py *)

\* if t_hoy <= t_ayer - 2
EsDescensoEstricto(t_hoy, t_ayer) == t_hoy < t_ayer - 2000

EsDescenso(t_hoy, t_ayer) == t_hoy <= t_ayer - 2000

\* df_pred["temperature_2m_min"] < 3
EsHelada(t_min) == t_min < 3000

\* one alert message: its rule, and the date and temperature it prints
Alerta(tipo, row) ==
    [tipo |-> tipo, fecha |-> row.time, temp |-> row.pred_hibrida]

\* detectar_alertas(df_pred): the messages of the first loop, over the
\* rows 1 .. len-1 against their predecessors, then those of the second,
\* over the rows with a minimum below 3 degrees
DetectarAlertas(rows) ==
    LET D[k \in 1..Len(rows)] ==
            IF k = 1 THEN <<>>
            ELSE IF EsDescenso(rows[k].pred_hibrida, rows[k - 1].pred_hibrida)
                 THEN Append(D[k - 1], Alerta("descenso", rows[k]))
                 ELSE D[k - 1]
        heladas == SelectSeq(rows, LAMBDA r : EsHelada(r.temperature_2m_min))
    IN  (IF rows = <<>> THEN <<>> ELSE D[Len(rows)])
        \o [k \in 1..Len(heladas) |-> Alerta("helada", heladas[k])]

\* enviar_alertas(alertas): nothing without alerts; else one message with
\* all of them on every enabled channel, Telegram first
EnviarAlertas(alertas, telegram, email) ==
    IF alertas = <<>> THEN <<>>
    ELSE (IF telegram THEN <<[canal |-> "telegram", mensaje |-> alertas]>>
          ELSE <<>>)
         \o (IF email THEN <<[canal |-> "email", mensaje |-> alertas]>>
             ELSE <<>>)

----------------------------------------------------------------------------
(* check_alerts.py : check_alerts on a table, SpecAlertas *)

\* most rows of the table handed to check_alerts
MaxFilasAlerta == 3

\* hybrid temperatures of the rows: drops of 1.999, 2 and 3.999 degrees
TempsAlerta == {4000, 6000, 7999}

\* mean temperatures of the rows: a minimum estimate of 2.999 and 3 degrees
MediasAlerta == {5999, 6000}

\* one row of a prediction table
FilaAlerta(t, hibrido, media) ==
    [time |-> t, hibrido |-> hibrido, temperature_2m_mean |-> media]

InitAlertas ==
    /\ pc = "tabla_alertas"
    /\ df = TablaVacia
    /\ modo_entrenamiento = FALSE
    /\ df_feat = NingunResultado
    /\ ForecastEnReposo
    /\ TrainEnReposo
    /\ today = Hoy
    /\ llamada = SinGetData
    /\ descarga = SinDescarga
    /\ carga = SinCarga
    /\ \E cols \in {{"time", "hibrido", "temperature_2m_mean"},
                     {"time", "temperature_2m_mean"}} :
          alerta = [SinAlerta EXCEPT !.df_pred = [cols |-> cols, rows |-> <<>>]]

\* the caller's table gains a row of a date it does not hold yet; the rows
\* come in no particular order
AgregarFilaAlerta(t, hibrido, media) ==
    /\ pc = "tabla_alertas"
    /\ Len(alerta.df_pred.rows) < MaxFilasAlerta
    /\ \A k \in 1..Len(alerta.df_pred.rows) : alerta.df_pred.rows[k].time # t
    /\ alerta' = [alerta EXCEPT !.df_pred.rows =
                     Append(@, FilaAlerta(t, hibrido, media))]
    /\ UNCHANGED <<pc, today, varsFeat, varsForecast, varsTrain, llamada,
                   descarga, carga>>

\* check_alerts(df_pred), with the channels the environment enables
CheckAlerts(telegram, email) ==
    /\ pc = "tabla_alertas"
    /\ \E d \in {PrepararDfAlertas(alerta.df_pred)} :
          IF d.error # ""
          THEN /\ pc' = "error_alertas"
               /\ UNCHANGED alerta
          ELSE /\ pc' = "alertado"
               /\ alerta' = [alerta EXCEPT
                     !.preparado = d.rows,
                     !.alertas = DetectarAlertas(d.rows),
                     !.enviados = EnviarAlertas(DetectarAlertas(d.rows),
                                                telegram, email)]
    /\ UNCHANGED <<today, varsFeat, varsForecast, varsTrain, llamada, descarga,
                   carga>>

NextAlertas ==
    \/ \E t \in 1..MaxFilasAlerta, h \in TempsAlerta, m \in MediasAlerta :
          AgregarFilaAlerta(t, h, m)
    \/ \E telegram \in BOOLEAN, email \in BOOLEAN : CheckAlerts(telegram, email)

SpecAlertas == InitAlertas /\ [][NextAlertas]_vars

\* the input rows in date order, as preparar_df_alertas leaves them
PorFecha == SortPorTime(alerta.df_pred.rows)

\* positions of the rows at least 2 degrees below the row before them
Descensos ==
    {k \in 2..Len(PorFecha) :
        PorFecha[k - 1].hibrido - PorFecha[k].hibrido >= 2000}

\* positions of the rows whose minimum estimate is below 3 degrees
Heladas ==
    {k \in 1..Len(PorFecha) : PorFecha[k].temperature_2m_mean - 3000 < 3000}

\* the alerts of one rule about the row at position k
AlertasDe(tipo, k) ==
    {j \in 1..Len(alerta.alertas) :
        /\ alerta.alertas[j].tipo = tipo
        /\ alerta.alertas[j].fecha = PorFecha[k].time}

\* C25: the alerts of a prepared table are one sharp-drop alert for each
\* row at least 2 degrees below the row before it, one frost alert for
\* each row with a minimum below 3 degrees, and no other; with no alert,
\* nothing is sent on any channel.
C25_AlertasExactas ==
    pc = "alertado" =>
        /\ \A k \in 1..Len(PorFecha) :
              /\ Cardinality(AlertasDe("descenso", k))
                    = (IF k \in Descensos THEN 1 ELSE 0)
              /\ Cardinality(AlertasDe("helada", k))
                    = (IF k \in Heladas THEN 1 ELSE 0)
        /\ Len(alerta.alertas)
              = Cardinality(Descensos) + Cardinality(Heladas)
        /\ alerta.alertas = <<>> => alerta.enviados = <<>>

\* a table given out of date order with a drop of exactly 2 degrees, a drop
\* just short of 2 degrees and a minimum just below 3 degrees; both
\* channels sent the alerts
C25_Testigo ==
    /\ pc = "alertado"
    /\ alerta.df_pred.rows # PorFecha
    /\ \E k \in Descensos : PorFecha[k - 1].hibrido - PorFecha[k].hibrido = 2000
    /\ \E k \in 2..Len(PorFecha) :
          PorFecha[k - 1].hibrido - PorFecha[k].hibrido = 1999
    /\ \E k \in Heladas : PorFecha[k].temperature_2m_mean = 5999
    /\ \E k \in 1..Len(PorFecha) : k \notin Heladas
    /\ Len(alerta.enviados) = 2

----------------------------------------------------------------------------
(* data/downloader.py : descargar_datos_openmeteo, SpecDescarga *)

\* for intento in range(5)
MaxIntentos == 5

\* What one attempt meets: the request, the decoding or the processing
\* raises (lanza), or the decoded response holds or lacks each of the keys
\* "daily", "hourly" and "error".  A response with both data keys is taken
\* to be well formed.
Respuestas ==
    {[lanza |-> TRUE, daily |-> FALSE, hourly |-> FALSE, error |-> FALSE]}
    \cup [lanza : {FALSE}, daily : BOOLEAN, hourly : BOOLEAN, error : BOOLEAN]

\* if "daily" in data and "hourly" in data: return the merged table
Completa(r) == ~r.lanza /\ r.daily /\ r.hourly

\* if "error" in data: break
NuncaCorta(r) == FALSE

CortaPorError(r) == ~r.lanza /\ ~Completa(r) /\ r.error

\* one pass of the retry loop, and the return that follows the last one
Intento(r) ==
    /\ pc = "bajando"
    /\ Len(descarga.respuestas) < MaxIntentos
    /\ LET n == Len(descarga.respuestas) + 1
           fin == IF Completa(r) THEN "tabla"
                  ELSE IF CortaPorError(r) \/ n = MaxIntentos THEN "vacio"
                  ELSE ""
       IN  /\ descarga' =
                 [respuestas |-> Append(descarga.respuestas, r),
                  pausas |-> descarga.pausas + (IF r.lanza THEN 1 ELSE 0),
                  resultado |-> fin]
           /\ pc' = IF fin = "" THEN "bajando" ELSE "fin"
    /\ UNCHANGED <<today, varsFeat, varsForecast, varsTrain, llamada, alerta,
                   carga>>

InitDescarga ==
    /\ pc = "bajando"
    /\ df = TablaVacia
    /\ modo_entrenamiento = FALSE
    /\ df_feat = NingunResultado
    /\ ForecastEnReposo
    /\ TrainEnReposo
    /\ today = Hoy
    /\ AuxEnReposo

NextDescarga == \E r \in Respuestas : Intento(r)

SpecDescarga == InitDescarga /\ [][NextDescarga]_vars

\* the attempts that raised
Lanzadas(rs) == {k \in 1..Len(rs) : rs[k].lanza}

----------------------------------------------------------------------------
(* get_data called on a store: SpecGetData *)

\* most rows the store holds between get_data calls
MaxFilasGetData == 6

\* the city names get_data is called with
CiudadesGetData == {santander, Santander, sevilla}

\* get_data(c, ..., fecha_ini, fecha_fin, modo_append): the whole call
LlamarGetData(c, fecha_ini, fecha_fin, modo_append, fallan) ==
    /\ pc = "get_data"
    /\ \E g \in {GetDataFases(db.rows, c, fecha_ini, fecha_fin, modo_append,
                              fallan)} :
          /\ Len(g.rows) <= MaxFilasGetData
          /\ db' = [db EXCEPT !.rows = g.rows]
          /\ llamada' = [ciudad |-> c, modo_append |-> modo_append,
                         falla |-> g.fallas, antes |-> db.rows,
                         retorno |-> g.retorno, devuelve |-> g.devuelve]
    /\ UNCHANGED <<pc, today, varsFeat, varsTrain, sarima, xgb_model,
                   features_names, ciudad, dias_forecast, df_futuro_meteo,
                   sarima_forecast, df_dinamico, i, resultados, pasos,
                   anterior, descarga, alerta, carga>>

InitGetData ==
    /\ pc = "get_data"
    /\ df = TablaVacia
    /\ modo_entrenamiento = FALSE
    /\ df_feat = NingunResultado
    /\ ForecastEnReposo
    /\ TrainEnReposo
    /\ today = Hoy
    /\ AuxEnReposo

\* the calls ingest() makes (block 1 and block 2), for any city
NextGetData ==
    \E c \in CiudadesGetData, fallan \in SUBSET Fases :
        \/ LlamarGetData(c, StartDate, today - 1, FALSE, fallan)
        \/ LlamarGetData(c, today, today, TRUE, fallan)

SpecGetData == InitGetData /\ [][NextGetData]_vars

\* the rows of the store that belong to city c, whatever the letter case
DeCiudad(rows, c) == SelectSeq(rows, LAMBDA r : Lower(r.estacion) = Lower(c))

\* the returned table as insertar_en_db stores it
Guardadas(retorno) ==
    [k \in 1..Len(retorno) |->
        [retorno[k] EXCEPT !.estacion = Lower(retorno[k].estacion)]]

\* C22 (as claimed): a call in which a phase failed returns None; a call
\* that returns a table has inserted its rows; a call whose download or
\* cleaning failed leaves the store as it was.
C22_NoneSiFalla ==
    llamada # SinGetData =>
        /\ llamada.falla # {} => ~llamada.devuelve
        /\ llamada.devuelve =>
              /\ Len(db.rows) >= Len(llamada.retorno)
              /\ SubSeq(db.rows, Len(db.rows) - Len(llamada.retorno) + 1,
                        Len(db.rows)) = Guardadas(llamada.retorno)
        /\ llamada.falla \cap {"descarga", "limpieza"} # {}
              => db.rows = llamada.antes

\* the rows of the store that belong to any other city
DeOtras(rows, c) == SelectSeq(rows, LAMBDA r : Lower(r.estacion) # Lower(c))

\* C30 (as claimed): after a replacing call for a city that had rows, the
\* store holds for that city its previous rows (the call returned None) or
\* the newly downloaded rows, never none; the rows of every other city are
\* as before.
C30_SinPerdidaAlReemplazar ==
    (llamada # SinGetData /\ ~llamada.modo_append
        /\ DeCiudad(llamada.antes, llamada.ciudad) # <<>>) =>
        /\ DeCiudad(db.rows, llamada.ciudad) # <<>>
        /\ DeCiudad(db.rows, llamada.ciudad) =
              IF llamada.devuelve THEN Guardadas(llamada.retorno)
              ELSE DeCiudad(llamada.antes, llamada.ciudad)
        /\ DeOtras(db.rows, llamada.ciudad)
              = DeOtras(llamada.antes, llamada.ciudad)

====
